---------------------------- MODULE Spec2Model ----------------------------
(***************************************************************************)
(* Model of src/stepper.c (Grbl stepper motor interface): the step ring    *)
(* buffer shared by the foreground (st_buffer_step, st_buffer_pace,        *)
(* st_synchronize, st_flush, st_start, st_stop) and the timer 1 compare    *)
(* interrupt that pops it, the timer 2 overflow interrupt that ends a      *)
(* step pulse, and config_pace_timer.                                      *)
(*                                                                         *)
(* The foreground is one thread of control; `pc` is its position, with one *)
(* action per statement that reads or writes state shared with an          *)
(* interrupt.  The two handlers are SIGNAL handlers: they run with         *)
(* interrupts disabled, so each is one atomic action, enabled while the    *)
(* global interrupt flag and its own enable bit are set.                   *)
(***************************************************************************)
EXTENDS Integers, Sequences, FiniteSets, TLC

(***************************************************************************)
(* Program constants.                                                      *)
(***************************************************************************)
\* stepper.c:35 is 100.  The ring arithmetic is the same for every size; the
\* model runs it at a small size so that the buffer fills and wraps.
STEP_BUFFER_SIZE == 4

PACE_CHANGE_MARKER == 255

\* F_CPU/1000000; F_CPU comes from the build (16 MHz).
TICKS_PER_MICROSECOND == 16

\* config.h (not in src/): X,Y,Z step bits 0..2, direction bits 3..5, no
\* inversion; each mask as the set of its bits.
STEP_MASK == {0, 1, 2}
DIRECTION_MASK == {3, 4, 5}
STEPPING_INVERT_MASK == {}

STEPPER_MODE_STOPPED == 0
STEPPER_MODE_RUNNING == 1

\* The pace st_init configures (stepper.c:113).
INITIAL_PACE == 20000

(***************************************************************************)
(* Bounds of the model.                                                    *)
(***************************************************************************)
\* How far around each tier boundary the intervals given to
\* config_pace_timer spread.
TimerSpread == 8

\* How many st_buffer_pace calls the logged stream specification makes.
MaxReqs == 2

\* The step instruction the producer passes to st_buffer_step: an X step with
\* the X direction bit set.  The marker is the second value the buffer holds.
StepBytes == {9}

\* Paces the producer requests.
Paces == {20000, 5000, 3000}

(***************************************************************************)
(* Integer helpers for C's fixed-width arithmetic.                         *)
(***************************************************************************)
\* TLC's integers are 32-bit signed, so a uint32_t that can pass 2^31 is kept
\* as its two 16-bit halves.
Pow2(n) == 2 ^ n

U16(x) == x % 65536

Long(h, l) == [hi |-> h, lo |-> l]

\* a * b in uint32_t, for a below 2^31 and b below 2^15.
MulU32(a, b) ==
  LET low == (a % 65536) * b
  IN Long(U16((a \div 65536) * b + low \div 65536), U16(low))

\* x <= the constant with halves h and l.
LeqU32(x, h, l) == x.hi < h \/ (x.hi = h /\ x.lo <= l)

\* (uint16_t)(x >> n), for n from 0 to 16.
ShrU16(x, n) == U16(x.hi * Pow2(16 - n) + x.lo \div Pow2(n))

\* The bits set in a byte, as bit numbers: a port register is kept as the set
\* of its bits that are 1, so that &, |, ~ and ^ are set operations.
BitsOf(byte) == {i \in 0..7 : (byte \div Pow2(i)) % 2 = 1}

Xor(a, b) == (a \ b) \cup (b \ a)

ByteOf(v, i) == (v \div Pow2(8 * i)) % 256

(***************************************************************************)
(* State.                                                                  *)
(***************************************************************************)
VARIABLES
  step_buffer,       \* stepper.c:40
  step_buffer_head,  \* stepper.c:41
  step_buffer_tail,  \* stepper.c:42
  current_pace,      \* stepper.c:43
  next_pace,         \* stepper.c:44
  stepper_mode,      \* stepper.c:46
  SREG_I,            \* global interrupt enable (sei/cli)
  OCIE1A,            \* TIMSK1 bit: timer 1 compare interrupt enabled
  TOIE2,             \* TIMSK2 bit: timer 2 overflow interrupt enabled
  TCCR1B_CS,         \* clock select bits of timer 1 (prescaler index + 1)
  OCR1A,             \* ceiling of timer 1
  STEPPING_PORT,     \* step and direction outputs (the bits that are 1)
  PORTD3,            \* PORTD bit 3, the idle indicator
  ENABLE,            \* STEPPERS_ENABLE_PORT bit
  TCNT2_loaded,      \* timer 2 was loaded for a pulse and has not overflowed since
  pc,                \* foreground: position
  stack,             \* foreground: return positions of the calls in progress
  bits,              \* foreground: motor_port_bits of st_buffer_step
  nbh,               \* foreground: next_buffer_head of st_buffer_step
  us,                \* foreground: microseconds of st_buffer_pace
  rd,                \* foreground: current_pace as it stood when its read began
  by_pace,           \* foreground: st_buffer_step was called by st_buffer_pace
  pending,           \* history: instructions enqueued and not yet popped or flushed
  reqs               \* history: paces requested while running (logged stream only)

shared == <<step_buffer, step_buffer_head, step_buffer_tail, current_pace, next_pace>>

timer1 == <<TCCR1B_CS, OCR1A>>

hw == <<SREG_I, OCIE1A, TOIE2, STEPPING_PORT, PORTD3, ENABLE, TCNT2_loaded>>

locals == <<bits, nbh, us, rd, by_pace>>

vars == <<step_buffer, step_buffer_head, step_buffer_tail, current_pace, next_pace,
          stepper_mode, SREG_I, OCIE1A, TOIE2, TCCR1B_CS, OCR1A, STEPPING_PORT,
          PORTD3, ENABLE, TCNT2_loaded, pc, stack, bits, nbh, us, rd, by_pace,
          pending, reqs>>


(***************************************************************************)
(* config_pace_timer (stepper.c:200-230).                                  *)
(***************************************************************************)
\* stepper.c:202: the multiplication is done in uint32_t.
Ticks(microseconds) == MulU32(microseconds, TICKS_PER_MICROSECOND)

\* Mutant of PaceTimer: the 8x tier taken up to 0xfffff.
PaceTimerWideTier(microseconds) ==
  LET ticks == Ticks(microseconds) IN
  IF LeqU32(ticks, 0, 65535) THEN [ceiling |-> ShrU16(ticks, 0), prescaler |-> 0]
  ELSE IF LeqU32(ticks, 15, 65535) THEN [ceiling |-> ShrU16(ticks, 3), prescaler |-> 1]
  ELSE IF LeqU32(ticks, 63, 65535) THEN [ceiling |-> ShrU16(ticks, 6), prescaler |-> 2]
  ELSE IF LeqU32(ticks, 255, 65535) THEN [ceiling |-> ShrU16(ticks, 8), prescaler |-> 3]
  ELSE IF LeqU32(ticks, 1023, 65535) THEN [ceiling |-> ShrU16(ticks, 10), prescaler |-> 4]
  ELSE [ceiling |-> 65535, prescaler |-> 4]

\* Mutant of PaceTimer: the 1024x tier shifts by 9.
PaceTimerShortShift(microseconds) ==
  LET ticks == Ticks(microseconds) IN
  IF LeqU32(ticks, 0, 65535) THEN [ceiling |-> ShrU16(ticks, 0), prescaler |-> 0]
  ELSE IF LeqU32(ticks, 7, 65535) THEN [ceiling |-> ShrU16(ticks, 3), prescaler |-> 1]
  ELSE IF LeqU32(ticks, 63, 65535) THEN [ceiling |-> ShrU16(ticks, 6), prescaler |-> 2]
  ELSE IF LeqU32(ticks, 255, 65535) THEN [ceiling |-> ShrU16(ticks, 8), prescaler |-> 3]
  ELSE IF LeqU32(ticks, 1023, 65535) THEN [ceiling |-> ShrU16(ticks, 9), prescaler |-> 4]
  ELSE [ceiling |-> 65535, prescaler |-> 4]

\* Mutant of PaceTimer: the ceiling rounded up instead of down.
PaceTimerRoundUp(microseconds) ==
  LET ticks == Ticks(microseconds) IN
  IF LeqU32(ticks, 0, 65535) THEN [ceiling |-> ShrU16(ticks, 0), prescaler |-> 0]
  ELSE IF LeqU32(ticks, 7, 65535) THEN [ceiling |-> ShrU16(ticks, 3), prescaler |-> 1]
  ELSE IF LeqU32(ticks, 63, 65535) THEN [ceiling |-> U16(ShrU16(ticks, 6) + 1), prescaler |-> 2]
  ELSE IF LeqU32(ticks, 255, 65535) THEN [ceiling |-> U16(ShrU16(ticks, 8) + 1), prescaler |-> 3]
  ELSE IF LeqU32(ticks, 1023, 65535) THEN [ceiling |-> U16(ShrU16(ticks, 10) + 1), prescaler |-> 4]
  ELSE [ceiling |-> 65535, prescaler |-> 4]

\* stepper.c:203-224: the ceiling (a uint16_t) and the prescaler index.
PaceTimer(microseconds) ==
  LET ticks == Ticks(microseconds) IN
  IF LeqU32(ticks, 0, 65535) THEN [ceiling |-> ShrU16(ticks, 0), prescaler |-> 0]
  ELSE IF LeqU32(ticks, 7, 65535) THEN [ceiling |-> ShrU16(ticks, 3), prescaler |-> 1]
  ELSE IF LeqU32(ticks, 63, 65535) THEN [ceiling |-> ShrU16(ticks, 6), prescaler |-> 2]
  ELSE IF LeqU32(ticks, 255, 65535) THEN [ceiling |-> ShrU16(ticks, 8), prescaler |-> 3]
  ELSE IF LeqU32(ticks, 1023, 65535) THEN [ceiling |-> ShrU16(ticks, 10), prescaler |-> 4]
  ELSE [ceiling |-> 65535, prescaler |-> 4]

\* stepper.c:225-229: the registers and current_pace after the call.
config_pace_timer(microseconds) ==
  /\ TCCR1B_CS' = PaceTimer(microseconds).prescaler + 1
  /\ OCR1A' = PaceTimer(microseconds).ceiling
  /\ current_pace' = microseconds

(***************************************************************************)
(* The state st_init leaves (stepper.c:40-46, 87-114).                     *)
(***************************************************************************)
Init ==
  /\ step_buffer = [i \in 0..(STEP_BUFFER_SIZE - 1) |-> 0]
  /\ step_buffer_head = 0
  /\ step_buffer_tail = 0
  /\ current_pace = INITIAL_PACE
  /\ next_pace = 0
  /\ stepper_mode = STEPPER_MODE_STOPPED
  /\ SREG_I = TRUE
  /\ OCIE1A = FALSE
  /\ TOIE2 = FALSE
  /\ TCCR1B_CS = PaceTimer(INITIAL_PACE).prescaler + 1
  /\ OCR1A = PaceTimer(INITIAL_PACE).ceiling
  /\ STEPPING_PORT = {}
  /\ PORTD3 = FALSE
  /\ ENABLE = FALSE
  /\ TCNT2_loaded = FALSE
  /\ pc = "idle"
  /\ stack = <<>>
  /\ bits = 0
  /\ nbh = 0
  /\ us = 0
  /\ rd = 0
  /\ by_pace = FALSE
  /\ pending = <<>>
  /\ reqs = <<>>

(***************************************************************************)
(* The interrupt handlers.                                                 *)
(***************************************************************************)
\* Mutant of Popped: the newest instruction is read instead of the oldest.
PoppedNewest == step_buffer[(step_buffer_head + STEP_BUFFER_SIZE - 1) % STEP_BUFFER_SIZE]

\* stepper.c:57: the instruction the handler reads.
Popped == step_buffer[step_buffer_tail]

\* stepper.c:63-67: the port after a step instruction.
StepPort(port, popped) ==
  LET p == Xor(BitsOf(popped), STEPPING_INVERT_MASK)
      withDir == (port \ DIRECTION_MASK) \cup (p \cap DIRECTION_MASK)
  IN (withDir \ STEP_MASK) \cup p

\* stepper.c:72
NextTail == (step_buffer_tail + 1) % STEP_BUFFER_SIZE

\* Mutant of Tick: a marker is also put on the stepping port and starts the
\* pulse-reset timer.
TickMarkerPulses ==
  /\ SREG_I
  /\ OCIE1A
  /\ IF step_buffer_head # step_buffer_tail
     THEN /\ PORTD3' = FALSE
          /\ IF Popped = PACE_CHANGE_MARKER
             THEN /\ config_pace_timer(next_pace)
                  /\ next_pace' = 0
             ELSE UNCHANGED <<current_pace, next_pace, timer1>>
          /\ STEPPING_PORT' = StepPort(STEPPING_PORT, Popped)
          /\ TCNT2_loaded' = TRUE
          /\ step_buffer_tail' = NextTail
          /\ pending' = IF pending = <<>> THEN <<>> ELSE Tail(pending)
     ELSE /\ PORTD3' = TRUE
          /\ UNCHANGED <<step_buffer_tail, current_pace, next_pace, timer1,
                         STEPPING_PORT, TCNT2_loaded, pending>>
  /\ UNCHANGED <<step_buffer, step_buffer_head, stepper_mode, SREG_I, OCIE1A, TOIE2,
                 ENABLE, pc, stack, locals, reqs>>

\* Mutant of Tick: the marker test ignores the lowest bit of the byte.
TickLooseMarker ==
  /\ SREG_I
  /\ OCIE1A
  /\ IF step_buffer_head # step_buffer_tail
     THEN /\ PORTD3' = FALSE
          /\ IF Popped \div 2 = PACE_CHANGE_MARKER \div 2
             THEN /\ config_pace_timer(next_pace)
                  /\ next_pace' = 0
                  /\ UNCHANGED <<STEPPING_PORT, TCNT2_loaded>>
             ELSE /\ STEPPING_PORT' = StepPort(STEPPING_PORT, Popped)
                  /\ TCNT2_loaded' = TRUE
                  /\ UNCHANGED <<current_pace, next_pace, timer1>>
          /\ step_buffer_tail' = NextTail
          /\ pending' = IF pending = <<>> THEN <<>> ELSE Tail(pending)
     ELSE /\ PORTD3' = TRUE
          /\ UNCHANGED <<step_buffer_tail, current_pace, next_pace, timer1,
                         STEPPING_PORT, TCNT2_loaded, pending>>
  /\ UNCHANGED <<step_buffer, step_buffer_head, stepper_mode, SREG_I, OCIE1A, TOIE2,
                 ENABLE, pc, stack, locals, reqs>>

\* SIGNAL(SIG_OUTPUT_COMPARE1A), stepper.c:53-76.
Tick ==
  /\ SREG_I
  /\ OCIE1A
  /\ IF step_buffer_head # step_buffer_tail
     THEN /\ PORTD3' = FALSE
          /\ IF Popped = PACE_CHANGE_MARKER
             THEN /\ config_pace_timer(next_pace)
                  /\ next_pace' = 0
                  /\ UNCHANGED <<STEPPING_PORT, TCNT2_loaded>>
             ELSE /\ STEPPING_PORT' = StepPort(STEPPING_PORT, Popped)
                  /\ TCNT2_loaded' = TRUE
                  /\ UNCHANGED <<current_pace, next_pace, timer1>>
          /\ step_buffer_tail' = NextTail
          /\ pending' = IF pending = <<>> THEN <<>> ELSE Tail(pending)
     ELSE /\ PORTD3' = TRUE
          /\ UNCHANGED <<step_buffer_tail, current_pace, next_pace, timer1,
                         STEPPING_PORT, TCNT2_loaded, pending>>
  /\ UNCHANGED <<step_buffer, step_buffer_head, stepper_mode, SREG_I, OCIE1A, TOIE2,
                 ENABLE, pc, stack, locals, reqs>>

\* SIGNAL(SIG_OVERFLOW2), stepper.c:80-84.  Timer 2 runs free, so the overflow
\* can come whenever its interrupt is enabled.
Overflow2 ==
  /\ SREG_I
  /\ TOIE2
  /\ STEPPING_PORT' = (STEPPING_PORT \ STEP_MASK) \cup (STEPPING_INVERT_MASK \cap STEP_MASK)
  /\ TCNT2_loaded' = FALSE
  /\ UNCHANGED <<shared, stepper_mode, SREG_I, OCIE1A, TOIE2, timer1, PORTD3, ENABLE,
                 pc, stack, locals, pending, reqs>>

(***************************************************************************)
(* The foreground.                                                         *)
(***************************************************************************)
\* A function returns: to the caller's next position, or to the idle producer.
Return ==
  IF stack = <<>>
  THEN pc' = "idle" /\ stack' = stack
  ELSE pc' = Head(stack) /\ stack' = Tail(stack)

\* The pace the producer last asked for (history).
Want == IF reqs = <<>> THEN INITIAL_PACE ELSE reqs[Len(reqs)]

\* The producer calls st_buffer_step(b).
CallBufferStep(b) ==
  /\ pc = "idle"
  /\ pc' = "st_buffer_step"
  /\ bits' = b
  /\ by_pace' = FALSE
  /\ UNCHANGED <<shared, stepper_mode, timer1, hw, stack, nbh, us, rd, pending, reqs>>

\* Mutant of BufferStepEntry: the mode is not tested.
BufferStepEntryUngated ==
  /\ pc = "st_buffer_step"
  /\ nbh' = (step_buffer_head + 1) % STEP_BUFFER_SIZE
  /\ pc' = "step_wait"
  /\ UNCHANGED <<shared, stepper_mode, timer1, hw, stack, bits, us, rd, by_pace,
                 pending, reqs>>

\* stepper.c:119-121: the mode test and next_buffer_head.  stepper_mode and
\* step_buffer_head are written by the foreground alone.  The indices are
\* 16-bit ints read a byte at a time, but stay below 256, so that a read
\* split by an interrupt sees the value before it or the value after it.
BufferStepEntry ==
  /\ pc = "st_buffer_step"
  /\ IF stepper_mode # STEPPER_MODE_RUNNING
     THEN /\ Return
          /\ bits' = 0
          /\ nbh' = nbh
          /\ by_pace' = FALSE
     ELSE /\ nbh' = (step_buffer_head + 1) % STEP_BUFFER_SIZE
          /\ pc' = "step_wait"
          /\ UNCHANGED <<stack, bits, by_pace>>
  /\ UNCHANGED <<shared, stepper_mode, timer1, hw, us, rd, pending, reqs>>

\* Mutant of BufferStepWait: the byte is pushed whether or not the buffer is full.
BufferStepNoWait ==
  /\ pc = "step_wait"
  /\ pc' = "step_push"
  /\ UNCHANGED <<shared, stepper_mode, timer1, hw, stack, locals, pending, reqs>>

\* stepper.c:124: the loop ends when the tail is not at next_buffer_head; until
\* then the foreground sleeps and tests again.
BufferStepWait ==
  /\ pc = "step_wait"
  /\ step_buffer_tail # nbh
  /\ pc' = "step_push"
  /\ UNCHANGED <<shared, stepper_mode, timer1, hw, stack, locals, pending, reqs>>

\* stepper.c:126
BufferStepPush ==
  /\ pc = "step_push"
  /\ step_buffer' = [step_buffer EXCEPT ![step_buffer_head] = bits]
  /\ pc' = "step_adv"
  /\ UNCHANGED <<step_buffer_head, step_buffer_tail, current_pace, next_pace,
                 stepper_mode, timer1, hw, stack, locals, pending, reqs>>

\* stepper.c:127-128: the instruction becomes visible to the handler.
BufferStepAdvance ==
  /\ pc = "step_adv"
  /\ step_buffer_head' = nbh
  /\ pending' = Append(pending, [b |-> bits, want |-> Want, by |-> by_pace])
  /\ Return
  /\ bits' = 0
  /\ nbh' = 0
  /\ by_pace' = FALSE
  /\ UNCHANGED <<step_buffer, step_buffer_tail, current_pace, next_pace,
                 stepper_mode, timer1, hw, us, rd, reqs>>

\* The producer calls st_buffer_pace(m).  The logged call records a request
\* made while running.
CallBufferPace(m, logged) ==
  /\ pc = "idle"
  /\ logged => Len(reqs) < MaxReqs
  /\ pc' = "st_buffer_pace"
  /\ us' = m
  /\ reqs' = IF logged /\ stepper_mode = STEPPER_MODE_RUNNING
             THEN Append(reqs, m) ELSE reqs
  /\ UNCHANGED <<shared, stepper_mode, timer1, hw, stack, bits, nbh, rd, by_pace, pending>>

\* stepper.c:179: with the mode not running the call returns whatever
\* current_pace is; otherwise the read of current_pace begins.
BufferPaceEntry ==
  /\ pc = "st_buffer_pace"
  /\ IF stepper_mode # STEPPER_MODE_RUNNING
     THEN /\ Return
          /\ us' = 0
          /\ rd' = rd
     ELSE /\ rd' = current_pace
          /\ pc' = "pace_cmp"
          /\ UNCHANGED <<stack, us>>
  /\ UNCHANGED <<shared, stepper_mode, timer1, hw, bits, nbh, by_pace, pending, reqs>>

\* A 32-bit read on the 8-bit AVR is four loads, in ascending or descending
\* order; an interrupt between two of them leaves the bytes read first from
\* the value before it and the others from the value after it.
FirstParts == {{0}, {0, 1}, {0, 1, 2}, {0, 1, 2, 3}, {3}, {2, 3}, {1, 2, 3}}

Assemble(first, before, after) ==
  LET B(i) == IF i \in first THEN ByteOf(before, i) ELSE ByteOf(after, i)
  IN B(0) + 256 * B(1) + 65536 * B(2) + 16777216 * B(3)

TornReads(before, after) == {Assemble(first, before, after) : first \in FirstParts}

\* stepper.c:179: the comparison, on the value the read produced.
BufferPaceCompare ==
  /\ pc = "pace_cmp"
  /\ \E v \in TornReads(rd, current_pace) :
       IF v = us
       THEN Return /\ us' = 0
       ELSE pc' = "pace_wait" /\ UNCHANGED <<stack, us>>
  /\ rd' = 0
  /\ UNCHANGED <<shared, stepper_mode, timer1, hw, bits, nbh, by_pace, pending, reqs>>

\* Mutant of BufferPaceWait: the pace is buffered whether or not one is pending.
BufferPaceNoWait ==
  /\ pc = "pace_wait"
  /\ pc' = "pace_set"
  /\ UNCHANGED <<shared, stepper_mode, timer1, hw, stack, locals, pending, reqs>>

\* stepper.c:181-183: the loop ends when next_pace is 0.
BufferPaceWait ==
  /\ pc = "pace_wait"
  /\ next_pace = 0
  /\ pc' = "pace_set"
  /\ UNCHANGED <<shared, stepper_mode, timer1, hw, stack, locals, pending, reqs>>

\* Mutant of BufferPaceSet: the foreground configures the timer itself as well.
BufferPaceSetDirect ==
  /\ pc = "pace_set"
  /\ next_pace' = us
  /\ config_pace_timer(us)
  /\ pc' = "st_buffer_step"
  /\ bits' = PACE_CHANGE_MARKER
  /\ by_pace' = TRUE
  /\ us' = 0
  /\ UNCHANGED <<step_buffer, step_buffer_head, step_buffer_tail,
                 stepper_mode, hw, stack, nbh, rd, pending, reqs>>

\* stepper.c:185-186: next_pace is set and st_buffer_step(PACE_CHANGE_MARKER)
\* is called; st_buffer_pace returns when that call does.  The four stores to
\* next_pace are one step: the handler reads next_pace only as it pops a
\* marker, and none is in the buffer while next_pace is 0 and the producer
\* passes step instructions and non-zero paces.  BufferPaceSetTorn is the
\* other case.
BufferPaceSet ==
  /\ pc = "pace_set"
  /\ next_pace' = us
  /\ pc' = "st_buffer_step"
  /\ bits' = PACE_CHANGE_MARKER
  /\ by_pace' = TRUE
  /\ us' = 0
  /\ UNCHANGED <<step_buffer, step_buffer_head, step_buffer_tail, current_pace,
                 stepper_mode, timer1, hw, stack, nbh, rd, pending, reqs>>

\* stepper.c:185 with the timer 1 handler run between two of the four stores
\* to next_pace, popping a marker (stepper.c:58-61, 72).  This needs a marker
\* in the buffer while next_pace is 0, which only a producer that passes the
\* marker byte to st_buffer_step brings about.  The handler reads the bytes
\* stored so far over the old value, configures the timer from that, and
\* clears next_pace; the stores still to come then write their bytes into the
\* cleared variable.
BufferPaceSetTorn ==
  /\ pc = "pace_set"
  /\ SREG_I
  /\ OCIE1A
  /\ step_buffer_head # step_buffer_tail
  /\ Popped = PACE_CHANGE_MARKER
  /\ \E first \in FirstParts \ {{0, 1, 2, 3}} :
       /\ config_pace_timer(Assemble(first, us, next_pace))
       /\ next_pace' = Assemble(first, 0, us)
  /\ PORTD3' = FALSE
  /\ step_buffer_tail' = NextTail
  /\ pending' = IF pending = <<>> THEN <<>> ELSE Tail(pending)
  /\ pc' = "st_buffer_step"
  /\ bits' = PACE_CHANGE_MARKER
  /\ by_pace' = TRUE
  /\ us' = 0
  /\ UNCHANGED <<step_buffer, step_buffer_head, stepper_mode, SREG_I, OCIE1A, TOIE2,
                 STEPPING_PORT, ENABLE, TCNT2_loaded, stack, nbh, rd, reqs>>

\* The producer calls st_synchronize, st_flush, st_start or st_stop.
CallSynchronize ==
  /\ pc = "idle"
  /\ pc' = "st_synchronize"
  /\ UNCHANGED <<shared, stepper_mode, timer1, hw, stack, locals, pending, reqs>>

CallFlush ==
  /\ pc = "idle"
  /\ pc' = "st_flush"
  /\ UNCHANGED <<shared, stepper_mode, timer1, hw, stack, locals, pending, reqs>>

CallStart ==
  /\ pc = "idle"
  /\ pc' = "st_start"
  /\ UNCHANGED <<shared, stepper_mode, timer1, hw, stack, locals, pending, reqs>>

CallStop ==
  /\ pc = "idle"
  /\ pc' = "st_stop"
  /\ UNCHANGED <<shared, stepper_mode, timer1, hw, stack, locals, pending, reqs>>

\* Mutant of SynchronizeEntry: the mode is not tested, the wait is always made.
SynchronizeEntryAlwaysWait ==
  /\ pc = "st_synchronize"
  /\ pc' = "sync_wait"
  /\ UNCHANGED <<shared, stepper_mode, timer1, hw, stack, locals, pending, reqs>>

\* stepper.c:133-137: running, wait for the buffer to empty; else st_flush,
\* after which st_synchronize returns.
SynchronizeEntry ==
  /\ pc = "st_synchronize"
  /\ pc' = IF stepper_mode = STEPPER_MODE_RUNNING THEN "sync_wait" ELSE "st_flush"
  /\ UNCHANGED <<shared, stepper_mode, timer1, hw, stack, locals, pending, reqs>>

\* Mutant of SynchronizeWait: st_synchronize returns without waiting.
SynchronizeNoWait ==
  /\ pc = "sync_wait"
  /\ Return
  /\ UNCHANGED <<shared, stepper_mode, timer1, hw, locals, pending, reqs>>

\* stepper.c:134: the loop ends when the tail has reached the head.
SynchronizeWait ==
  /\ pc = "sync_wait"
  /\ step_buffer_tail = step_buffer_head
  /\ Return
  /\ UNCHANGED <<shared, stepper_mode, timer1, hw, locals, pending, reqs>>

\* Mutant of FlushCli: interrupts are left enabled.
FlushNoCli ==
  /\ pc = "st_flush"
  /\ pc' = "flush_set"
  /\ UNCHANGED <<shared, stepper_mode, timer1, hw, stack, locals, pending, reqs>>

\* stepper.c:143
FlushCli ==
  /\ pc = "st_flush"
  /\ SREG_I' = FALSE
  /\ pc' = "flush_set"
  /\ UNCHANGED <<shared, stepper_mode, timer1, OCIE1A, TOIE2, STEPPING_PORT, PORTD3,
                 ENABLE, TCNT2_loaded, stack, locals, pending, reqs>>

\* stepper.c:144
FlushSet ==
  /\ pc = "flush_set"
  /\ step_buffer_tail' = step_buffer_head
  /\ pending' = <<>>
  /\ pc' = "flush_sei"
  /\ UNCHANGED <<step_buffer, step_buffer_head, current_pace, next_pace, stepper_mode,
                 timer1, hw, stack, locals, reqs>>

\* stepper.c:145-146
FlushSei ==
  /\ pc = "flush_sei"
  /\ SREG_I' = TRUE
  /\ Return
  /\ UNCHANGED <<shared, stepper_mode, timer1, OCIE1A, TOIE2, STEPPING_PORT, PORTD3,
                 ENABLE, TCNT2_loaded, locals, pending, reqs>>

\* stepper.c:152
StartTimsk1 ==
  /\ pc = "st_start"
  /\ OCIE1A' = TRUE
  /\ pc' = "start_t2"
  /\ UNCHANGED <<shared, stepper_mode, timer1, SREG_I, TOIE2, STEPPING_PORT, PORTD3,
                 ENABLE, TCNT2_loaded, stack, locals, pending, reqs>>

\* stepper.c:153
StartTimsk2 ==
  /\ pc = "start_t2"
  /\ TOIE2' = TRUE
  /\ pc' = "start_en"
  /\ UNCHANGED <<shared, stepper_mode, timer1, SREG_I, OCIE1A, STEPPING_PORT, PORTD3,
                 ENABLE, TCNT2_loaded, stack, locals, pending, reqs>>

\* stepper.c:155-157
StartMode ==
  /\ pc = "start_en"
  /\ ENABLE' = TRUE
  /\ stepper_mode' = STEPPER_MODE_RUNNING
  /\ Return
  /\ UNCHANGED <<shared, timer1, SREG_I, OCIE1A, TOIE2, STEPPING_PORT, PORTD3,
                 TCNT2_loaded, locals, pending, reqs>>

\* Mutant of StopEntry: st_stop does not call st_synchronize.
StopEntryNoSync ==
  /\ pc = "st_stop"
  /\ pc' = "stop_t1"
  /\ UNCHANGED <<shared, stepper_mode, timer1, hw, stack, locals, pending, reqs>>

\* stepper.c:163: st_stop calls st_synchronize.
StopEntry ==
  /\ pc = "st_stop"
  /\ pc' = "st_synchronize"
  /\ stack' = <<"stop_t1">> \o stack
  /\ UNCHANGED <<shared, stepper_mode, timer1, hw, locals, pending, reqs>>

\* stepper.c:165
StopTimsk1 ==
  /\ pc = "stop_t1"
  /\ OCIE1A' = FALSE
  /\ pc' = "stop_t2"
  /\ UNCHANGED <<shared, stepper_mode, timer1, SREG_I, TOIE2, STEPPING_PORT, PORTD3,
                 ENABLE, TCNT2_loaded, stack, locals, pending, reqs>>

\* stepper.c:166
StopTimsk2 ==
  /\ pc = "stop_t2"
  /\ TOIE2' = FALSE
  /\ pc' = "stop_en"
  /\ UNCHANGED <<shared, stepper_mode, timer1, SREG_I, OCIE1A, STEPPING_PORT, PORTD3,
                 ENABLE, TCNT2_loaded, stack, locals, pending, reqs>>

\* stepper.c:168-170
StopMode ==
  /\ pc = "stop_en"
  /\ ENABLE' = FALSE
  /\ stepper_mode' = STEPPER_MODE_STOPPED
  /\ Return
  /\ UNCHANGED <<shared, timer1, SREG_I, OCIE1A, TOIE2, STEPPING_PORT, PORTD3,
                 TCNT2_loaded, locals, pending, reqs>>

(***************************************************************************)
(* Specifications.                                                         *)
(***************************************************************************)
\* The statements of st_buffer_step, st_buffer_pace and st_start.
StreamStep ==
  \/ BufferStepEntry
  \/ BufferStepWait
  \/ BufferStepPush
  \/ BufferStepAdvance
  \/ BufferPaceEntry
  \/ BufferPaceCompare
  \/ BufferPaceWait
  \/ BufferPaceSet
  \/ StartTimsk1
  \/ StartTimsk2
  \/ StartMode

\* The statements of st_synchronize, st_flush and st_stop.
LifecycleStep ==
  \/ SynchronizeEntry
  \/ SynchronizeWait
  \/ FlushCli
  \/ FlushSet
  \/ FlushSei
  \/ StopEntry
  \/ StopTimsk1
  \/ StopTimsk2
  \/ StopMode

\* Every foreground call, every statement and both interrupts.
Next ==
  \/ \E b \in StepBytes : CallBufferStep(b)
  \/ \E m \in Paces : CallBufferPace(m, FALSE)
  \/ CallSynchronize
  \/ CallFlush
  \/ CallStart
  \/ CallStop
  \/ StreamStep
  \/ LifecycleStep
  \/ Tick
  \/ Overflow2

Spec == Init /\ [][Next]_vars

\* The timer 1 interrupt recurs for as long as it is enabled, and the
\* foreground runs whenever no handler does.
FairSpec == Spec /\ WF_vars(Tick) /\ WF_vars(StreamStep \/ LifecycleStep)

\* A producer that starts the subsystem and then only buffers steps and pace
\* changes, every pace request logged.
StreamNext ==
  \/ \E b \in StepBytes : CallBufferStep(b)
  \/ \E m \in Paces : CallBufferPace(m, TRUE)
  \/ CallStart
  \/ StreamStep
  \/ Tick
  \/ Overflow2

StreamSpec == Init /\ [][StreamNext]_vars

\* Bytes a producer may pass to st_buffer_step (a uint8_t): the marker value
\* itself and the byte that differs from it in one bit, which has bits outside
\* the step and direction masks.
RawBytes == {254, PACE_CHANGE_MARKER}

\* The paces such a producer asks for.
RawPaces == {5000, 3000}

\* A producer that starts the subsystem and then buffers steps of any byte
\* value and pace changes.
RawNext ==
  \/ \E b \in RawBytes : CallBufferStep(b)
  \/ \E m \in RawPaces : CallBufferPace(m, FALSE)
  \/ CallStart
  \/ StreamStep
  \/ BufferPaceSetTorn
  \/ Tick
  \/ Overflow2

RawSpec == Init /\ [][RawNext]_vars

(***************************************************************************)
(* config_pace_timer on its own: every call with an interval near a tier   *)
(* boundary, near the 32-bit wrap of the tick count, and at both ends.     *)
(***************************************************************************)
\* The largest interval given to the call, 2^31 - 2: the model checker's
\* integers end at 2^31 - 1.
MaxInterval == 1073741823 * 2

\* ticks reaches 0xffff, 0x7ffff, 0x3fffff, 0xffffff and 0x3ffffff between
\* these intervals and the next; interval 2^28 is where ticks wraps to 0.
TimerCentres == {0, 4095, 20000, 32767, 262143, 1048575, 4194303, 268435456, MaxInterval}

TimerInputs ==
  {m \in UNION {((c - TimerSpread)..c) \cup (c..(IF c = MaxInterval THEN c ELSE c + TimerSpread)) :
                c \in TimerCentres} : m >= 0}

\* A call config_pace_timer(m), stepper.c:200-230.
ConfigPaceTimerCall(m) ==
  /\ config_pace_timer(m)
  /\ UNCHANGED <<step_buffer, step_buffer_head, step_buffer_tail, next_pace,
                 stepper_mode, hw, pc, stack, locals, pending, reqs>>

TimerNext == \E m \in TimerInputs : ConfigPaceTimerCall(m)

TimerSpec == Init /\ [][TimerNext]_vars

\* What the clock select bits written at stepper.c:226 make timer 1 divide by
\* (the comments of stepper.c:207-219).
PrescalerOf(cs) ==
  CASE cs = 1 -> 1 [] cs = 2 -> 8 [] cs = 3 -> 64 [] cs = 4 -> 256 [] cs = 5 -> 1024

Prescalers == {1, 8, 64, 256, 1024}

\* The largest interval whose tick count the 1024x prescaler brings into 16 bits.
MaxRepresentable == (65535 * 1024 + 1023) \div TICKS_PER_MICROSECOND

\* The timer's configured period, prescaler * ceiling, in ticks.
Period == PrescalerOf(TCCR1B_CS) * OCR1A

\* C6: for every interval whose tick count the largest prescaler can
\* represent, the prescaler configured is the smallest of {1, 8, 64, 256, 1024}
\* with floor(ticks / prescaler) <= 65535, and the ceiling is that quotient;
\* interval 20000 gives prescaler 8 and ceiling 40000.
C6_SmallestPrescaler ==
  /\ current_pace <= MaxRepresentable =>
       LET ticks == current_pace * TICKS_PER_MICROSECOND
           fit == {p \in Prescalers : ticks \div p <= 65535}
           least == CHOOSE p \in fit : \A q \in fit : p <= q
       IN /\ PrescalerOf(TCCR1B_CS) = least
          /\ OCR1A = ticks \div least
          /\ OCR1A <= 65535
  /\ current_pace = 20000 => (PrescalerOf(TCCR1B_CS) = 8 /\ OCR1A = 40000)

\* C6 witness: the timer was configured for an interval in the 1024x tier that
\* the prescaler does not divide.
C6_Witness ==
  /\ current_pace = 4194303 - TimerSpread
  /\ TCCR1B_CS = 5
  /\ PrescalerOf(TCCR1B_CS) * OCR1A < current_pace * TICKS_PER_MICROSECOND

C8_Clamp ==
  current_pace > MaxRepresentable => (OCR1A = 65535 /\ PrescalerOf(TCCR1B_CS) = 1024)

\* C9 as claimed: the configured period is never shorter than the requested
\* interval, prescaler * ceiling >= interval * ticksPerMicrosecond (compared
\* after dividing by ticksPerMicrosecond, the interval being an integer).
C9_NeverFaster == Period \div TICKS_PER_MICROSECOND >= current_pace

\* C9 amended: the configured period is never longer than the requested
\* interval, prescaler * ceiling <= interval * ticksPerMicrosecond, for every
\* interval; the inaccuracy is only ever towards a faster cadence.
C9_NeverSlower ==
  (Period + TICKS_PER_MICROSECOND - 1) \div TICKS_PER_MICROSECOND <= current_pace

\* C9 witness: the timer was configured with a period shorter than the interval.
C9_Witness ==
  /\ current_pace > INITIAL_PACE
  /\ current_pace <= MaxRepresentable
  /\ Period < current_pace * TICKS_PER_MICROSECOND

(***************************************************************************)
(* The ring buffer and the pace protocol.                                  *)
(***************************************************************************)
\* How many slots lie from the tail up to the head.
Occupancy == (step_buffer_head - step_buffer_tail + STEP_BUFFER_SIZE) % STEP_BUFFER_SIZE

\* The bytes in those slots, oldest first.
Resident ==
  [i \in 1..Occupancy |-> step_buffer[(step_buffer_tail + i - 1) % STEP_BUFFER_SIZE]]

\* The bytes enqueued and not yet popped, oldest first.
PendingBytes == [i \in 1..Len(pending) |-> pending[i].b]

\* A step in which the timer 1 handler pops an instruction (the foreground
\* moves the tail only in st_flush, and moves on as it does).
Pop == step_buffer_tail' # step_buffer_tail /\ pc' = pc

Markers == {i \in 1..Len(pending) : pending[i].b = PACE_CHANGE_MARKER}

\* C1: every instruction the handler pops is the oldest one enqueued and not
\* yet popped, and the pop removes exactly that one: the instructions popped
\* are a prefix of those enqueued, in order, none skipped or duplicated.
C1_FIFO ==
  [][Pop => /\ pending # <<>>
            /\ Popped = Head(pending).b
            /\ step_buffer_tail' = NextTail
            /\ Occupancy' = Len(pending) - 1]_vars

\* C1 witness: the buffer has wrapped and is full, a marker the oldest
\* instruction in it.
C1_Witness ==
  /\ step_buffer_head < step_buffer_tail
  /\ Len(pending) = STEP_BUFFER_SIZE - 1
  /\ Head(pending).b = PACE_CHANGE_MARKER
  /\ pending[2].b # PACE_CHANGE_MARKER

\* C2: at most STEP_BUFFER_SIZE - 1 instructions are resident, the slots from
\* tail to head hold exactly the instructions not yet popped (none was
\* overwritten), and st_buffer_step writes the buffer and moves the head only
\* with fewer than STEP_BUFFER_SIZE - 1 resident.
C2_Bounded ==
  /\ Len(pending) <= STEP_BUFFER_SIZE - 1
  /\ Resident = PendingBytes
  /\ pc \in {"step_push", "step_adv"} => Len(pending) < STEP_BUFFER_SIZE - 1

\* C2 witness: st_buffer_step is blocked, the buffer holding
\* STEP_BUFFER_SIZE - 1 instructions.
C2_Witness ==
  /\ pc = "step_wait"
  /\ step_buffer_tail = nbh
  /\ bits # PACE_CHANGE_MARKER
  /\ Len(pending) = STEP_BUFFER_SIZE - 1

\* C3 as claimed: every step instruction is executed while current_pace is
\* the pace most recently requested before it was enqueued.
C3_PaceOrdering ==
  [][(Pop /\ Popped # PACE_CHANGE_MARKER /\ pending # <<>>)
       => current_pace = Head(pending).want]_vars

\* C4: a pending pace is never overwritten, only cleared by the handler as it
\* pops the marker; the buffer never holds two markers; st_buffer_pace sets
\* next_pace only when none is pending; and st_buffer_pace(5000) followed by
\* st_buffer_pace(3000) leaves current_pace 3000 once the buffer has drained.
C4_SinglePending ==
  /\ [][(next_pace # 0 /\ next_pace' # next_pace)
          => (Pop /\ Popped = PACE_CHANGE_MARKER /\ next_pace' = 0)]_vars
  /\ [](Cardinality(Markers) <= 1)
  /\ [](pc = "pace_set" => (next_pace = 0 /\ Markers = {}))
  /\ []((reqs = <<5000, 3000>> /\ pc = "idle" /\ Occupancy = 0) => current_pace = 3000)

\* C4 witness: st_buffer_pace(3000) waits while the pace 5000 requested just
\* before it is pending.
C4_Witness ==
  /\ reqs = <<5000, 3000>>
  /\ pc = "pace_wait"
  /\ us = 3000
  /\ next_pace = 5000

\* C5: called while stopped, st_buffer_step and st_buffer_pace return in their
\* first step, with head, tail, buffer, next_pace and current_pace unchanged.
C5_ModeGating ==
  [][(pc \in {"st_buffer_step", "st_buffer_pace"}
        /\ stepper_mode = STEPPER_MODE_STOPPED /\ pc' # pc)
       => (pc' = "idle" /\ UNCHANGED shared /\ UNCHANGED pending)]_vars

\* C5 witness: st_buffer_step is called while stopped, after an earlier run
\* changed the pace.
C5_Witness ==
  /\ pc = "st_buffer_step"
  /\ stepper_mode = STEPPER_MODE_STOPPED
  /\ current_pace # INITIAL_PACE

\* st_stop has been called and has not returned.
Stopping == pc = "st_stop" \/ stack = <<"stop_t1">> \/ pc \in {"stop_t1", "stop_t2", "stop_en"}

\* C10: while st_stop runs on a running subsystem, instructions leave the
\* buffer only by being popped; the timer interrupt is disabled and the mode
\* becomes stopped only with every instruction popped; st_stop returns with
\* the mode stopped and the buffer empty; and, the timer interrupt recurring,
\* st_stop returns.
C10_StopDrains ==
  /\ [][(Stopping /\ stepper_mode = STEPPER_MODE_RUNNING /\ pending' # pending)
          => (Pop /\ pending' = Tail(pending))]_vars
  /\ [][((OCIE1A /\ ~OCIE1A') \/ (stepper_mode # stepper_mode' /\ stepper_mode' = STEPPER_MODE_STOPPED))
          => (pending = <<>> /\ Occupancy = 0)]_vars
  /\ [][(pc = "stop_en" /\ pc' # pc)
          => (pc' = "idle" /\ stepper_mode' = STEPPER_MODE_STOPPED
              /\ Occupancy' = 0 /\ pending' = <<>>)]_vars
  /\ (Stopping ~> (pc = "idle" /\ stepper_mode = STEPPER_MODE_STOPPED /\ Occupancy = 0))

\* C10 witness: st_stop waits in st_synchronize, the buffer full.
C10_Witness ==
  /\ pc = "sync_wait"
  /\ stack = <<"stop_t1">>
  /\ stepper_mode = STEPPER_MODE_RUNNING
  /\ Len(pending) = STEP_BUFFER_SIZE - 1

\* st_synchronize or the st_flush it calls runs with the mode stopped.
SyncStopped ==
  /\ stepper_mode = STEPPER_MODE_STOPPED
  /\ pc \in {"st_synchronize", "st_flush", "flush_set", "flush_sei"}

\* C11: running, st_synchronize returns only with the head equal to the tail,
\* and while it waits instructions leave the buffer only by being popped;
\* stopped, it goes straight to st_flush, every step until it returns is the
\* foreground's own (no interrupt is waited for), and it returns.
C11_Synchronize ==
  /\ [][(pc = "sync_wait" /\ pc' # pc)
          => (step_buffer_head = step_buffer_tail /\ UNCHANGED shared
              /\ UNCHANGED pending)]_vars
  /\ [][(pc \in {"st_synchronize", "sync_wait"}
          /\ stepper_mode = STEPPER_MODE_RUNNING /\ pending' # pending)
          => (Pop /\ pending' = Tail(pending))]_vars
  /\ [][(pc = "st_synchronize" /\ stepper_mode = STEPPER_MODE_STOPPED /\ pc' # pc)
          => pc' = "st_flush"]_vars
  /\ [][SyncStopped => (pc' # pc)]_vars
  /\ (SyncStopped ~> ~SyncStopped)

\* C11 witness: st_synchronize, called by the producer while running, waits
\* with the buffer full.
C11_Witness ==
  /\ pc = "sync_wait"
  /\ stack = <<>>
  /\ stepper_mode = STEPPER_MODE_RUNNING
  /\ Len(pending) = STEP_BUFFER_SIZE - 1

\* C12: from the cli of st_flush to its sei interrupts are masked and every
\* step is the foreground's own, so no handler runs between the read of the
\* head and the write of the tail; the write leaves the tail at the head and
\* the head where it was; st_flush returns with the buffer empty; and the
\* handler can pop only as many instructions as were enqueued since the
\* flush, none of those queued when it was made.
C12_FlushAtomic ==
  /\ [](pc \in {"flush_set", "flush_sei"} => ~SREG_I)
  /\ [][(pc \in {"flush_set", "flush_sei"}) => (pc' # pc)]_vars
  /\ [][(pc = "flush_set" /\ pc' # pc)
          => (step_buffer_tail' = step_buffer_head
              /\ step_buffer_head' = step_buffer_head)]_vars
  /\ [][(pc = "flush_sei" /\ pc' # pc)
          => (Occupancy' = 0 /\ step_buffer_head' = step_buffer_head)]_vars
  /\ [](Occupancy = Len(pending))

\* C12 witness: st_flush is about to move the tail, the buffer full and the
\* timer 1 interrupt enabled but masked.
C12_Witness ==
  /\ pc = "flush_set"
  /\ OCIE1A
  /\ stepper_mode = STEPPER_MODE_RUNNING
  /\ Occupancy = STEP_BUFFER_SIZE - 1

\* A step output is at its active level.
StepAsserted ==
  (STEPPING_PORT \cap STEP_MASK) # (STEPPING_INVERT_MASK \cap STEP_MASK)

\* C13 as claimed: the timer 2 overflow that follows a step pop returns the
\* step outputs to their inactive level and leaves the direction outputs as
\* they were, and the step outputs are never active with the timer 2 overflow
\* interrupt disabled, whatever the foreground does after the pop.
C13_PulseCompletes ==
  /\ [][(TCNT2_loaded /\ ~TCNT2_loaded')
          => (~StepAsserted'
              /\ STEPPING_PORT' \cap DIRECTION_MASK = STEPPING_PORT \cap DIRECTION_MASK)]_vars
  /\ [](StepAsserted => TOIE2)

\* A foreground call waits in one of the three sleep loops, the mode running.
Blocked ==
  /\ stepper_mode = STEPPER_MODE_RUNNING
  /\ pc \in {"step_wait", "pace_wait", "sync_wait"}

\* C14 as claimed: running, the timer 1 interrupt recurring, every call that
\* waits (st_buffer_step on a full buffer, st_buffer_pace on a pending pace,
\* st_synchronize on a buffer not empty) leaves its wait, whatever calls were
\* made before.
C14_BackpressureResolves == Blocked ~> ~Blocked

\* C15: the head is written only by the foreground (the last statement of
\* st_buffer_step); the tail only by the timer 1 handler as it pops, or by
\* st_flush with interrupts masked; current_pace only by the handler as it
\* pops a marker; next_pace by the foreground only when it is 0 (in
\* st_buffer_pace), and only the handler, popping a marker, clears it.
C15_SingleWriter ==
  /\ [][(step_buffer_head' # step_buffer_head) => (pc = "step_adv" /\ pc' # pc)]_vars
  /\ [][(step_buffer_tail' # step_buffer_tail)
          => (Pop \/ (pc = "flush_set" /\ pc' # pc /\ ~SREG_I))]_vars
  /\ [][(current_pace' # current_pace) => (Pop /\ Popped = PACE_CHANGE_MARKER)]_vars
  /\ [][(next_pace' # next_pace)
          => \/ (pc = "pace_set" /\ pc' # pc /\ next_pace = 0)
             \/ (Pop /\ Popped = PACE_CHANGE_MARKER /\ next_pace' = 0)]_vars

\* C15 witness: st_buffer_pace is about to set next_pace after the handler
\* has changed current_pace, with instructions waiting in the buffer.
C15_Witness ==
  /\ pc = "pace_set"
  /\ current_pace # INITIAL_PACE
  /\ Occupancy > 0

\* C16: a tick that pops a marker sets the timer 1 prescaler and ceiling for
\* next_pace, sets current_pace to next_pace, clears next_pace, moves the
\* tail on by one, and leaves the stepping port and the pulse-reset timer as
\* they were; a tick that pops anything else leaves current_pace and
\* next_pace as they were.
C16_MarkerTick ==
  /\ [][(Pop /\ Popped = PACE_CHANGE_MARKER)
          => (/\ TCCR1B_CS' = PaceTimer(next_pace).prescaler + 1
              /\ OCR1A' = PaceTimer(next_pace).ceiling
              /\ current_pace' = next_pace
              /\ next_pace' = 0
              /\ step_buffer_tail' = (step_buffer_tail + 1) % STEP_BUFFER_SIZE
              /\ STEPPING_PORT' = STEPPING_PORT
              /\ TCNT2_loaded' = TCNT2_loaded)]_vars
  /\ [][(Pop /\ Popped # PACE_CHANGE_MARKER)
          => UNCHANGED <<current_pace, next_pace>>]_vars

\* C16 witness: a marker is the next instruction to pop while the pulse of
\* the step before it is still active.
C16_Witness ==
  /\ Occupancy > 0
  /\ Popped = PACE_CHANGE_MARKER
  /\ next_pace = 3000
  /\ SREG_I /\ OCIE1A
  /\ StepAsserted
  /\ TCNT2_loaded

\* The positions in the buffer, from the tail, that hold a marker.
ResidentMarkers == {i \in 1..Occupancy : Resident[i] = PACE_CHANGE_MARKER}

\* st_buffer_pace, or the st_buffer_step it calls, is running.
InBufferPace ==
  \/ pc \in {"st_buffer_pace", "pace_cmp", "pace_wait", "pace_set"}
  \/ (pc \in {"st_buffer_step", "step_wait", "step_push", "step_adv"}
        /\ bits = PACE_CHANGE_MARKER)

\* C17 as claimed: the buffer never holds more than one marker, and outside
\* st_buffer_pace next_pace is non-zero exactly when a marker is in the
\* buffer, whatever calls were made before.
C17_MarkerAgreement ==
  /\ Cardinality(ResidentMarkers) <= 1
  /\ ~InBufferPace => (next_pace # 0 <=> Cardinality(ResidentMarkers) = 1)

\* C18 as claimed: with every call returned and the buffer drained,
\* current_pace is the pace of the most recent st_buffer_pace made while
\* running.
C18_LastPaceWins ==
  (pc = "idle" /\ Occupancy = 0 /\ reqs # <<>>) => current_pace = Want

\* C19: whenever the mode is stopped the head equals the tail and no
\* instruction enqueued is left to pop, so that the timer 1 interrupt is never
\* enabled over instructions left from before a stop.
C19_StoppedEmpty ==
  /\ [](stepper_mode = STEPPER_MODE_STOPPED
          => (step_buffer_head = step_buffer_tail /\ pending = <<>>))
  /\ [][(~OCIE1A /\ OCIE1A') => (Occupancy = 0 /\ pending = <<>>)]_vars

\* C19 witness: st_start has just enabled the timer 1 interrupt, the mode
\* still stopped, after a run that moved the head and changed the pace.
C19_Witness ==
  /\ pc = "start_t2"
  /\ stepper_mode = STEPPER_MODE_STOPPED
  /\ OCIE1A
  /\ step_buffer_head # 0
  /\ current_pace # INITIAL_PACE

\* A step in which the timer 1 handler pops an instruction, on its own or
\* between the stores of st_buffer_pace.
HandlerPop == step_buffer_tail' # step_buffer_tail /\ pc # "flush_set"

\* C20 as claimed: every byte the producer passes to st_buffer_step is
\* executed as a step and leaves the pace alone, and current_pace changes
\* only as the handler pops a marker that st_buffer_pace enqueued, with
\* next_pace not 0.
C20_MarkerDistinct ==
  /\ [][(HandlerPop /\ pending # <<>> /\ ~Head(pending).by)
          => (/\ UNCHANGED <<current_pace, next_pace, timer1>>
              /\ STEPPING_PORT' = StepPort(STEPPING_PORT, Head(pending).b)
              /\ TCNT2_loaded')]_vars
  /\ [][(current_pace' # current_pace)
          => (/\ HandlerPop
              /\ pending # <<>>
              /\ Head(pending).by
              /\ next_pace # 0)]_vars

\* C20 amended: every byte other than PACE_CHANGE_MARKER that the producer
\* passes to st_buffer_step is executed as a step (it is put on the stepping
\* port, the pulse-reset timer is started, the pace and timer 1 are left
\* alone), and current_pace changes only as the handler pops a byte equal to
\* PACE_CHANGE_MARKER, whoever enqueued it.
C20_NonMarkerIsStep ==
  /\ [][(HandlerPop /\ Popped # PACE_CHANGE_MARKER)
          => (/\ pending # <<>>
              /\ ~Head(pending).by
              /\ Head(pending).b = Popped
              /\ UNCHANGED <<current_pace, next_pace, timer1>>
              /\ STEPPING_PORT' = StepPort(STEPPING_PORT, Popped)
              /\ TCNT2_loaded')]_vars
  /\ [][(current_pace' # current_pace)
          => (HandlerPop /\ Popped = PACE_CHANGE_MARKER)]_vars

\* C20 witness: the byte 254 has been executed as a step (bit 7 of the port
\* is set), the pace as st_init left it, and another 254 is next to pop behind
\* which a marker of the producer's waits.
C20_Witness ==
  /\ 7 \in STEPPING_PORT
  /\ current_pace = INITIAL_PACE
  /\ next_pace = 0
  /\ Occupancy = 2
  /\ Popped = 254
  /\ ~pending[2].by
  /\ pending[2].b = PACE_CHANGE_MARKER

=============================================================================
